---------------------------- MODULE Spec2Model ----------------------------
(***************************************************************************)
(* Model of assemblyline/lib/assemble/assembler.py: the kmer graph         *)
(* construction (create_kmer_graph, add_path, hash_kmers,                   *)
(* find_short_path_kmers, clip_dangling_ends), the search for k            *)
(* (optimize_k, and the unpacking of its result in                          *)
(* assemble_transcript_graph) and expand_path_chains.                       *)
(*                                                                         *)
(* Scores are Python floats in the source.  They are modelled as exact     *)
(* rationals <<numerator, denominator>> in lowest terms, so rounding is    *)
(* abstracted away; a float division by zero is the ZeroDivisionError      *)
(* Python raises.                                                          *)
(***************************************************************************)
EXTENDS Integers, Sequences, FiniteSets, TLC

(***************************************************************************)
(* Bounds of the model.                                                    *)
(***************************************************************************)
NumNodes == 4
MaxPaths == 2
MaxScore == 1
MaxK == 3

(***************************************************************************)
(* Program constants.                                                      *)
(***************************************************************************)
SOURCE == -1
SINK == -2

Nodes == 1 .. NumNodes

-----------------------------------------------------------------------------
(***************************************************************************)
(* Exact rational arithmetic standing for the float arithmetic.            *)
(***************************************************************************)
Abs(x) == IF x < 0 THEN -x ELSE x

RECURSIVE Gcd(_, _)
Gcd(a, b) == IF b = 0 THEN a ELSE Gcd(b, a % b)

RatNorm(n, d) ==
    LET g == Gcd(Abs(n), Abs(d))
        s == IF d < 0 THEN -1 ELSE 1
    IN  <<(s * n) \div g, (s * d) \div g>>

Rat(n) == <<n, 1>>
Zero == <<0, 1>>
RatAdd(a, b) == RatNorm(a[1] * b[2] + b[1] * a[2], a[2] * b[2])
RatSub(a, b) == RatNorm(a[1] * b[2] - b[1] * a[2], a[2] * b[2])
RatMul(a, b) == RatNorm(a[1] * b[1], a[2] * b[2])
\* only used with b # Zero
RatDiv(a, b) == RatNorm(a[1] * b[2], a[2] * b[1])
RatLt(a, b) == a[1] * b[2] < b[1] * a[2]
RatLe(a, b) == a[1] * b[2] <= b[1] * a[2]

SetToSeq(S) ==
    LET RECURSIVE order(_)
        order(T) == IF T = {} THEN <<>>
                    ELSE LET m == CHOOSE x \in T : \A y \in T : x <= y
                         IN  <<m>> \o order(T \ {m})
    IN  order(S)

-----------------------------------------------------------------------------
(***************************************************************************)
(* The splice graph G and the kmer graph K (networkx DiGraph): node maps   *)
(* a vertex to its attributes, edge is the set of directed edges.          *)
(***************************************************************************)
in_degree(K, n) == Cardinality({e \in K.edge : e[2] = n})
out_degree(K, n) == Cardinality({e \in K.edge : e[1] = n})
successors(K, n) == {e[2] : e \in {f \in K.edge : f[1] = n}}
predecessors(K, n) == {e[1] : e \in {f \in K.edge : f[2] = n}}
nodes(K) == DOMAIN K.node

start_nodes(G) == {n \in nodes(G) : in_degree(G, n) = 0}
end_nodes(G) == {n \in nodes(G) : out_degree(G, n) = 0}

init_node_attrs ==
    [score |-> Zero, smooth_fwd |-> Zero, smooth_rev |-> Zero, smooth_tmp |-> Zero]

EmptyGraph == [node |-> <<>>, edge |-> {}]

add_node(K, n) ==
    IF n \in nodes(K) THEN K
    ELSE [K EXCEPT !.node = (n :> init_node_attrs) @@ K.node]

add_edge(K, u, v) == [K EXCEPT !.edge = @ \cup {<<u, v>>}]

remove_nodes_from(K, S) ==
    [node |-> [n \in nodes(K) \ S |-> K.node[n]],
     edge |-> {e \in K.edge : e[1] \notin S /\ e[2] \notin S}]

\* the score a vertex receives from one visit of a path
AddScoreMissing(attrs, score) == attrs

\* the score of a visit is added twice
AddScoreTwice(attrs, score) ==
    [attrs EXCEPT !.score = RatAdd(RatAdd(@, score), score)]

AddScore(attrs, score) == [attrs EXCEPT !.score = RatAdd(@, score)]

RECURSIVE add_path_rest(_, _, _, _, _)
add_path_rest(K, path, i, from_id, score) ==
    IF i > Len(path)
    THEN [K EXCEPT !.node[from_id].smooth_fwd = RatAdd(@, score)]
    ELSE LET to_id == path[i]
             K1 == add_node(K, to_id)
             K2 == [K1 EXCEPT !.node[to_id] = AddScore(@, score)]
             K3 == add_edge(K2, from_id, to_id)
         IN  add_path_rest(K3, path, i + 1, to_id, score)

add_path(K, path, score) ==
    LET from_id == path[1]
        K1 == add_node(K, from_id)
        K2 == [K1 EXCEPT !.node[from_id] = AddScore(@, score)]
        K3 == [K2 EXCEPT !.node[from_id].smooth_rev = RatAdd(@, score)]
    IN  add_path_rest(K3, path, 2, from_id, score)

\* for path, score in kmer_paths: add_path(K, path, score)
RECURSIVE add_paths(_, _, _)
add_paths(K, kmer_paths, i) ==
    IF i > Len(kmer_paths) THEN K
    ELSE add_paths(add_path(K, kmer_paths[i][1], kmer_paths[i][2]), kmer_paths, i + 1)

-----------------------------------------------------------------------------
(***************************************************************************)
(* create_kmer_graph, first loop: paths to kmer paths and short buckets.   *)
(***************************************************************************)
\* the window moves on by two nodes instead of one
get_kmers_skip(path, k) ==
    [i \in 1 .. ((Len(path) - (k - 1) + 1) \div 2) |->
        SubSeq(path, 2 * i - 1, 2 * i + k - 2)]

get_kmers(path, k) ==
    [i \in 1 .. (Len(path) - (k - 1)) |-> SubSeq(path, i, i + k - 1)]

EmptyMaps ==
    [kmer_id_map |-> <<>>, id_kmer_map |-> <<>>, current_id |-> 0,
     kmer_paths |-> <<>>, short_partial_path_dict |-> <<>>]

\* a kmer never seen before always gets a fresh id (no lookup)
KmerIdNoLookup(acc, kmer) ==
    [acc |-> [acc EXCEPT !.kmer_id_map = (kmer :> acc.current_id) @@ @,
                         !.id_kmer_map = (acc.current_id :> kmer) @@ @,
                         !.current_id = @ + 1],
     kmer_id |-> acc.current_id]

KmerId(acc, kmer) ==
    IF kmer \notin DOMAIN acc.kmer_id_map
    THEN [acc |-> [acc EXCEPT !.kmer_id_map = (kmer :> acc.current_id) @@ @,
                              !.id_kmer_map = (acc.current_id :> kmer) @@ @,
                              !.current_id = @ + 1],
          kmer_id |-> acc.current_id]
    ELSE [acc |-> acc, kmer_id |-> acc.kmer_id_map[kmer]]

RECURSIVE kmers_to_ids(_, _, _, _)
kmers_to_ids(acc, kmers, i, kmerpath) ==
    IF i > Len(kmers) THEN [acc |-> acc, kmerpath |-> kmerpath]
    ELSE LET r == KmerId(acc, kmers[i])
         IN  kmers_to_ids(r.acc, kmers, i + 1, Append(kmerpath, r.kmer_id))

\* full-length short paths are deferred like any other short path
IsDeferredNoFullLength(G, path, k) == Len(path) < k

IsDeferred(G, path, k) ==
    LET is_start == path[1] \in start_nodes(G)
        is_end == path[Len(path)] \in end_nodes(G)
        full_length == is_start /\ is_end
    IN  (Len(path) < k) /\ ~full_length

convert_path(acc, G, path, score, k) ==
    LET is_start == path[1] \in start_nodes(G)
        is_end == path[Len(path)] \in end_nodes(G)
    IN  IF IsDeferred(G, path, k)
        THEN LET d == acc.short_partial_path_dict
                 old == IF Len(path) \in DOMAIN d THEN d[Len(path)] ELSE <<>>
             IN  [acc EXCEPT !.short_partial_path_dict =
                                 (Len(path) :> Append(old, <<path, score>>)) @@ d]
        ELSE LET kmers == IF Len(path) < k THEN <<path>> ELSE get_kmers(path, k)
                 r == kmers_to_ids(acc, kmers, 1,
                                   IF is_start THEN <<SOURCE>> ELSE <<>>)
                 kmerpath == r.kmerpath \o (IF is_end THEN <<SINK>> ELSE <<>>)
             IN  [r.acc EXCEPT !.kmer_paths = Append(@, <<kmerpath, Rat(score)>>)]

RECURSIVE convert_paths(_, _, _, _, _)
convert_paths(acc, G, partial_paths, i, k) ==
    IF i > Len(partial_paths) THEN acc
    ELSE convert_paths(convert_path(acc, G, partial_paths[i].path,
                                    partial_paths[i].score, k),
                       G, partial_paths, i + 1, k)

-----------------------------------------------------------------------------
(***************************************************************************)
(* Short path resolution: hash_kmers and find_short_path_kmers.            *)
(***************************************************************************)
Min(a, b) == IF a < b THEN a ELSE b

\* Python's t[i:j] (0-based, half open, truncated at the end of t)
PySlice(t, i, j) == IF i >= Len(t) THEN <<>> ELSE SubSeq(t, i + 1, Min(j, Len(t)))

hash_kmers(id_kmer_map, k, ksmall) ==
    LET slices == {PySlice(id_kmer_map[id], i, i + ksmall) :
                      id \in DOMAIN id_kmer_map, i \in 0 .. (k - (ksmall - 1)) - 1}
    IN  [s \in slices |->
            {id \in DOMAIN id_kmer_map :
                \E i \in 0 .. (k - (ksmall - 1)) - 1 :
                    PySlice(id_kmer_map[id], i, i + ksmall) = s}]

RECURSIVE SumScores(_, _)
SumScores(K, S) ==
    IF S = {} THEN Zero
    ELSE LET n == CHOOSE x \in S : TRUE
         IN  RatAdd(K.node[n].score, SumScores(K, S \ {n}))

\* the whole score of the short path goes to every matching kmer
ShareWhole(score, kmer_score, total_score) == Rat(score)

Share(score, kmer_score, total_score) ==
    RatMul(Rat(score), RatDiv(kmer_score, total_score))

\* result: raised is TRUE for the ZeroDivisionError of line 121
find_short_path_kmers(kmer_hash, K, path, score) ==
    IF path \notin DOMAIN kmer_hash
    THEN [raised |-> FALSE, paths |-> <<>>]
    ELSE LET matching == SetToSeq(kmer_hash[path])
             total_score == SumScores(K, kmer_hash[path])
         IN  IF Len(matching) > 0 /\ total_score = Zero
             THEN [raised |-> TRUE, paths |-> <<>>]
             ELSE [raised |-> FALSE,
                   paths |-> [j \in 1 .. Len(matching) |->
                                 <<(<<matching[j]>>),
                                   Share(score, K.node[matching[j]].score, total_score)>>]]

EmptyResolution == [raised |-> FALSE, kmer_paths |-> <<>>, lost_paths |-> <<>>]

RECURSIVE resolve_bucket(_, _, _, _, _)
resolve_bucket(res, kmer_hash, K, short_partial_paths, i) ==
    IF i > Len(short_partial_paths) \/ res.raised THEN res
    ELSE LET path == short_partial_paths[i][1]
             score == short_partial_paths[i][2]
             m == find_short_path_kmers(kmer_hash, K, path, score)
             res1 == [raised |-> m.raised,
                      kmer_paths |-> res.kmer_paths \o m.paths,
                      lost_paths |->
                          IF ~m.raised /\ Len(m.paths) = 0
                          THEN Append(res.lost_paths, [path |-> path, score |-> score])
                          ELSE res.lost_paths]
         IN  resolve_bucket(res1, kmer_hash, K, short_partial_paths, i + 1)

\* the buckets are visited in the order of their lengths
RECURSIVE resolve_buckets(_, _, _, _, _, _)
resolve_buckets(res, id_kmer_map, K, short_partial_path_dict, lens, k) ==
    IF Len(lens) = 0 \/ res.raised THEN res
    ELSE LET ksmall == Head(lens)
             kmer_hash == hash_kmers(id_kmer_map, k, ksmall)
             res1 == resolve_bucket(res, kmer_hash, K,
                                    short_partial_path_dict[ksmall], 1)
         IN  resolve_buckets(res1, id_kmer_map, K, short_partial_path_dict,
                             Tail(lens), k)

resolve_short_paths(id_kmer_map, K, short_partial_path_dict, k) ==
    resolve_buckets(EmptyResolution, id_kmer_map, K, short_partial_path_dict,
                    SetToSeq(DOMAIN short_partial_path_dict), k)

-----------------------------------------------------------------------------
(***************************************************************************)
(* clip_dangling_ends: one record for the locals of the function.          *)
(***************************************************************************)
clip_begin(K) ==
    [K |-> K, clip_nodes |-> {}, clip_score |-> Zero, test_nodes |-> nodes(K)]

\* only a vertex without successor is dangling
IsDanglingSinkSide(K, n) == out_degree(K, n) = 0

IsDangling(K, n) == in_degree(K, n) = 0 \/ out_degree(K, n) = 0

\* only the successors are looked at again
ExposedSuccessorsOnly(K, n) == successors(K, n)

\* only the predecessors are looked at again
ExposedPredecessorsOnly(K, n) == predecessors(K, n)

\* the vertices to look at after n is removed
Exposed(K, n) == IF in_degree(K, n) = 0 THEN successors(K, n) ELSE predecessors(K, n)

\* the removed set and score keep only the last pass
clip_iterate_overwrite(c) ==
    LET new_clip_nodes ==
            {n \in c.test_nodes : n # SOURCE /\ n # SINK /\ IsDangling(c.K, n)}
    IN  [K |-> remove_nodes_from(c.K, new_clip_nodes),
         clip_nodes |-> new_clip_nodes,
         clip_score |-> SumScores(c.K, new_clip_nodes),
         test_nodes |-> UNION {Exposed(c.K, n) : n \in new_clip_nodes} \ new_clip_nodes]

\* the vertices tested in a pass are tested again in the next one
clip_iterate_keep_tested(c) ==
    LET new_clip_nodes ==
            {n \in c.test_nodes : n # SOURCE /\ n # SINK /\ IsDangling(c.K, n)}
        new_test_nodes == UNION {Exposed(c.K, n) : n \in new_clip_nodes}
    IN  [K |-> remove_nodes_from(c.K, new_clip_nodes),
         clip_nodes |-> c.clip_nodes \cup new_clip_nodes,
         clip_score |-> RatAdd(c.clip_score, SumScores(c.K, new_clip_nodes)),
         test_nodes |-> (c.test_nodes \cup new_test_nodes) \ new_clip_nodes]

clip_iterate(c) ==
    LET K == c.K
        tested == {n \in c.test_nodes : n # SOURCE /\ n # SINK}
        new_clip_nodes == {n \in tested : IsDangling(K, n)}
        new_test_nodes == UNION {Exposed(K, n) : n \in new_clip_nodes}
    IN  [K |-> remove_nodes_from(K, new_clip_nodes),
         clip_nodes |-> c.clip_nodes \cup new_clip_nodes,
         clip_score |-> RatAdd(c.clip_score, SumScores(K, new_clip_nodes)),
         test_nodes |-> new_test_nodes \ new_clip_nodes]

RECURSIVE clip_loop(_)
clip_loop(c) == IF c.test_nodes = {} THEN c ELSE clip_loop(clip_iterate(c))

clip_dangling_ends(K) == clip_loop(clip_begin(K))

-----------------------------------------------------------------------------
(***************************************************************************)
(* expand_path_chains.  A node of the path is an exon [start, end); its    *)
(* attributes may hold CHAIN_NODES, the exons it stands for.               *)
(***************************************************************************)
NEG_STRAND == "-"
POS_STRAND == "+"

Exon(start, end) == [start |-> start, end |-> end]

reverse(path) == [i \in 1 .. Len(path) |-> path[Len(path) + 1 - i]]

\* the path is never reversed
oriented_never(strand, path) == path

\* lines 298-299
oriented(strand, path) == IF strand = NEG_STRAND THEN reverse(path) ELSE path

\* lines 301-308
RECURSIVE expand_chains(_, _)
expand_chains(path, i) ==
    IF i > Len(path) THEN <<>>
    ELSE (IF path[i].has_chain THEN path[i].chain
          ELSE <<Exon(path[i].start, path[i].end)>>) \o expand_chains(path, i + 1)

\* a gap between two exons is merged away like a touching boundary
RECURSIVE collapse_loop_gap(_, _, _, _)
collapse_loop_gap(path, i, chain, newpath) ==
    IF i > Len(path)
    THEN Append(newpath, Exon(chain[1].start, chain[Len(chain)].end))
    ELSE IF chain[Len(chain)].end > path[i].start
         THEN collapse_loop_gap(path, i + 1, <<path[i]>>,
                                Append(newpath, Exon(chain[1].start, chain[Len(chain)].end)))
         ELSE collapse_loop_gap(path, i + 1, Append(chain, path[i]), newpath)

\* lines 312-321
RECURSIVE collapse_loop(_, _, _, _)
collapse_loop(path, i, chain, newpath) ==
    IF i > Len(path)
    THEN Append(newpath, Exon(chain[1].start, chain[Len(chain)].end))
    ELSE IF chain[Len(chain)].end # path[i].start
         THEN collapse_loop(path, i + 1, <<path[i]>>,
                            Append(newpath, Exon(chain[1].start, chain[Len(chain)].end)))
         ELSE collapse_loop(path, i + 1, Append(chain, path[i]), newpath)

\* lines 310-322
collapse(path) == collapse_loop(path, 2, <<path[1]>>, <<>>)

-----------------------------------------------------------------------------
(***************************************************************************)
(* assemble_transcript_graph, lines 364-365: the path of splice nodes that *)
(* a kmer path <<SOURCE, kmer ids ..., SINK>> stands for.                  *)
(***************************************************************************)
reconstruct_path(id_kmer_map, kmer_path) ==
    id_kmer_map[kmer_path[2]] \o
        [i \in 1 .. Len(kmer_path) - 3 |->
            LET kmer == id_kmer_map[kmer_path[i + 2]] IN kmer[Len(kmer)]]

-----------------------------------------------------------------------------
(***************************************************************************)
(* Inputs: a splice graph over Nodes whose edges go from a smaller to a    *)
(* larger node (a DAG), and a list of scored partial paths, each a         *)
(* non-empty walk of the splice graph.                                     *)
(***************************************************************************)
SpliceGraphs ==
    {[node |-> [n \in Nodes |-> TRUE], edge |-> E] :
        E \in SUBSET {e \in Nodes \X Nodes : e[1] < e[2]}}

Walks(G) ==
    {p \in UNION {[1 .. n -> Nodes] : n \in 1 .. NumNodes} :
        \A i \in 1 .. Len(p) - 1 : <<p[i], p[i + 1]>> \in G.edge}

ScoredPaths(G) == [path : Walks(G), score : 0 .. MaxScore]

PathLists(G) == UNION {[1 .. n -> ScoredPaths(G)] : n \in 0 .. MaxPaths}

-----------------------------------------------------------------------------
VARIABLES
    G,                        \* the splice graph
    partial_paths,            \* the list of (path, score)
    k,                        \* the k of the graph under construction
    pc,                       \* the place in the code
    kmer_id_map,              \* create_kmer_graph: kmer tuple -> id
    id_kmer_map,              \* create_kmer_graph: id -> kmer tuple
    current_id,               \* create_kmer_graph: next free id
    kmer_paths,               \* create_kmer_graph: the kmer paths to add
    short_partial_path_dict,  \* create_kmer_graph: length -> deferred paths
    K,                        \* the kmer graph
    K_resolved,               \* the kmer graph as handed to clip_dangling_ends
    lost_paths,               \* create_kmer_graph: unmatched short paths
    test_nodes,               \* clip_dangling_ends
    clip_nodes,               \* clip_dangling_ends
    clip_score,               \* clip_dangling_ends
    clip_iterations,          \* passes of the loop of clip_dangling_ends so far
    kmin, kmax,               \* optimize_k
    sensitivity_threshold,    \* optimize_k
    last,                     \* optimize_k: the pair accepted last, or None
    tried,                    \* optimize_k: the passes of the loop so far
    strand,                   \* expand_path_chains
    path_arg,                 \* expand_path_chains: the path as passed
    path,                     \* expand_path_chains: the local path
    newpath                   \* expand_path_chains: the result

buildvars ==
    <<kmer_id_map, id_kmer_map, current_id, kmer_paths, short_partial_path_dict,
      K, K_resolved, lost_paths, test_nodes, clip_nodes, clip_score,
      clip_iterations>>
optvars == <<kmin, kmax, sensitivity_threshold, last, tried>>
expandvars == <<strand, path_arg, path, newpath>>
vars == <<G, partial_paths, k, pc, buildvars, optvars, expandvars>>

None == [tag |-> "None"]

BuildIdle ==
    /\ kmer_id_map = <<>>
    /\ id_kmer_map = <<>>
    /\ current_id = 0
    /\ kmer_paths = <<>>
    /\ short_partial_path_dict = <<>>
    /\ K = EmptyGraph
    /\ K_resolved = EmptyGraph
    /\ lost_paths = <<>>
    /\ test_nodes = {}
    /\ clip_nodes = {}
    /\ clip_score = Zero
    /\ clip_iterations = 0

OptIdle ==
    /\ kmin = 0
    /\ kmax = 0
    /\ sensitivity_threshold = Zero
    /\ last = None
    /\ tried = <<>>

ExpandIdle ==
    /\ strand = POS_STRAND
    /\ path_arg = <<>>
    /\ path = <<>>
    /\ newpath = <<>>

(***************************************************************************)
(* create_kmer_graph(G, partial_paths, k), one action per stage.           *)
(***************************************************************************)
Init ==
    /\ G \in SpliceGraphs
    /\ partial_paths \in PathLists(G)
    /\ k \in 1 .. MaxK
    /\ pc = "convert"
    /\ BuildIdle
    /\ OptIdle
    /\ ExpandIdle

\* lines 192-232
ConvertPaths ==
    /\ pc = "convert"
    /\ LET acc == convert_paths(EmptyMaps, G, partial_paths, 1, k)
       IN  /\ kmer_id_map' = acc.kmer_id_map
           /\ id_kmer_map' = acc.id_kmer_map
           /\ current_id' = acc.current_id
           /\ kmer_paths' = acc.kmer_paths
           /\ short_partial_path_dict' = acc.short_partial_path_dict
    /\ pc' = "add_paths"
    /\ UNCHANGED <<G, partial_paths, k, K, K_resolved, lost_paths, test_nodes,
                   clip_nodes, clip_score, clip_iterations, optvars, expandvars>>

\* lines 234-239
AddKmerPaths ==
    /\ pc = "add_paths"
    /\ K' = add_paths(EmptyGraph, kmer_paths, 1)
    /\ pc' = "short_paths"
    /\ UNCHANGED <<G, partial_paths, k, kmer_id_map, id_kmer_map, current_id,
                   kmer_paths, short_partial_path_dict, K_resolved, lost_paths,
                   test_nodes, clip_nodes, clip_score, clip_iterations,
                   optvars, expandvars>>

\* lines 242-253; the ZeroDivisionError of line 121 leaves the function
ResolveShortPaths ==
    /\ pc = "short_paths"
    /\ LET res == resolve_short_paths(id_kmer_map, K, short_partial_path_dict, k)
       IN  IF res.raised
           THEN /\ pc' = "ZeroDivisionError"
                /\ UNCHANGED <<K, kmer_paths, lost_paths>>
           ELSE /\ pc' = "clip"
                /\ kmer_paths' = res.kmer_paths
                /\ lost_paths' = res.lost_paths
                /\ K' = add_paths(K, res.kmer_paths, 1)
    /\ UNCHANGED <<G, partial_paths, k, kmer_id_map, id_kmer_map, current_id,
                   short_partial_path_dict, K_resolved, test_nodes, clip_nodes,
                   clip_score, clip_iterations, optvars, expandvars>>

\* lines 132-136
ClipBegin ==
    /\ pc = "clip"
    /\ LET c == clip_begin(K)
       IN  /\ test_nodes' = c.test_nodes
           /\ clip_nodes' = c.clip_nodes
           /\ clip_score' = c.clip_score
    /\ K_resolved' = K
    /\ clip_iterations' = 0
    /\ pc' = "clip_loop"
    /\ UNCHANGED <<G, partial_paths, k, kmer_id_map, id_kmer_map, current_id,
                   kmer_paths, short_partial_path_dict, K, lost_paths,
                   optvars, expandvars>>

\* lines 137-157, one pass of the while loop
ClipIterate ==
    /\ pc = "clip_loop"
    /\ Cardinality(test_nodes) > 0
    /\ LET c == clip_iterate([K |-> K, clip_nodes |-> clip_nodes,
                              clip_score |-> clip_score, test_nodes |-> test_nodes])
       IN  /\ K' = c.K
           /\ test_nodes' = c.test_nodes
           /\ clip_nodes' = c.clip_nodes
           /\ clip_score' = c.clip_score
    /\ clip_iterations' = clip_iterations + 1
    /\ UNCHANGED <<G, partial_paths, k, pc, kmer_id_map, id_kmer_map, current_id,
                   kmer_paths, short_partial_path_dict, K_resolved, lost_paths,
                   optvars, expandvars>>

\* lines 137, 158 and 256-259
ClipReturn ==
    /\ pc = "clip_loop"
    /\ Cardinality(test_nodes) = 0
    /\ pc' = "done"
    /\ UNCHANGED <<G, partial_paths, k, buildvars, optvars, expandvars>>

Next ==
    \/ ConvertPaths
    \/ AddKmerPaths
    \/ ResolveShortPaths
    \/ ClipBegin
    \/ ClipIterate
    \/ ClipReturn

Spec == Init /\ [][Next]_vars

-----------------------------------------------------------------------------
(***************************************************************************)
(* create_kmer_graph as one function, for its caller optimize_k: the       *)
(* stages above in sequence.  raised is the ZeroDivisionError of line 121. *)
(***************************************************************************)
graph_result(res, c) ==
    IF res.raised
    THEN [raised |-> TRUE, K |-> EmptyGraph, lost_paths |-> <<>>,
          clip_nodes |-> {}, clip_score |-> Zero]
    ELSE [raised |-> FALSE, K |-> c.K, lost_paths |-> res.lost_paths,
          clip_nodes |-> c.clip_nodes, clip_score |-> c.clip_score]

\* lines 252-256
add_and_clip(K1, res) ==
    graph_result(res, clip_dangling_ends(add_paths(K1, res.kmer_paths, 1)))

\* lines 242-256
resolve_and_clip(acc, K1, kk) ==
    add_and_clip(K1, resolve_short_paths(acc.id_kmer_map, K1,
                                         acc.short_partial_path_dict, kk))

\* lines 234-256
add_resolve_and_clip(acc, kk) ==
    resolve_and_clip(acc, add_paths(EmptyGraph, acc.kmer_paths, 1), kk)

create_kmer_graph(g, pp, kk) ==
    add_resolve_and_clip(convert_paths(EmptyMaps, g, pp, 1, kk), kk)

\* the scores are summed without the lengths of the paths
RECURSIVE unweighted_score(_, _)
unweighted_score(paths, i) ==
    IF i > Len(paths) THEN 0
    ELSE paths[i].score + unweighted_score(paths, i + 1)

\* sum(len(path)*score for path,score in paths)
RECURSIVE weighted_score(_, _)
weighted_score(paths, i) ==
    IF i > Len(paths) THEN 0
    ELSE Len(paths[i].path) * paths[i].score + weighted_score(paths, i + 1)

\* lines 272-275
sensitivity(total_score, lost_path_score, clipped_score) ==
    RatDiv(RatSub(Rat(total_score), RatAdd(Rat(lost_path_score), clipped_score)),
           Rat(total_score))

\* lines 272-288.  raised: the ZeroDivisionError of line 121 (inside
\* create_kmer_graph), of line 275 (total_score is 0) or of line 282 (the
\* clipped graph has no vertex left, len(K) is 0).
evaluation(total_score, r) ==
    IF r.raised \/ total_score = 0 \/ Cardinality(nodes(r.K)) = 0
    THEN [raised |-> TRUE, K |-> EmptyGraph, score_sensitivity |-> Zero]
    ELSE [raised |-> FALSE, K |-> r.K,
          score_sensitivity |->
              sensitivity(total_score, weighted_score(r.lost_paths, 1), r.clip_score)]

\* lines 266 and 270-288: the graph at kk and its sensitivity
evaluate_k(g, pp, kk) ==
    evaluation(weighted_score(pp, 1), create_kmer_graph(g, pp, kk))

Thresholds == {<<0, 1>>, <<1, 2>>, <<1, 1>>}

\* the loop goes on after a k that fails the threshold
BelowThresholdNever(score_sensitivity, threshold) == FALSE

BelowThreshold(score_sensitivity, threshold) == RatLt(score_sensitivity, threshold)

(***************************************************************************)
(* optimize_k(G, partial_paths, kmin, kmax, sensitivity_threshold), one    *)
(* action per pass of its loop, and the unpacking of its result at line    *)
(* 351 of assemble_transcript_graph.                                       *)
(***************************************************************************)
InitK ==
    /\ G \in SpliceGraphs
    /\ partial_paths \in PathLists(G)
    /\ kmin \in 1 .. MaxK
    /\ kmax \in kmin .. MaxK
    /\ sensitivity_threshold \in Thresholds
    /\ k = kmin
    /\ last = None
    /\ tried = <<>>
    /\ pc = "optimize"
    /\ BuildIdle
    /\ ExpandIdle

\* lines 289-291, with e the evaluation of lines 270-288
OptimizeStep(e) ==
    IF e.raised
    THEN /\ pc' = "ZeroDivisionError"
         /\ tried' = Append(tried, [k |-> k, raised |-> TRUE,
                                    score_sensitivity |-> Zero])
         /\ UNCHANGED <<k, last>>
    ELSE /\ tried' = Append(tried, [k |-> k, raised |-> FALSE,
                                    score_sensitivity |-> e.score_sensitivity])
         /\ IF BelowThreshold(e.score_sensitivity, sensitivity_threshold)
            THEN /\ pc' = "break"
                 /\ UNCHANGED <<k, last>>
            ELSE /\ last' = [tag |-> "pair", K |-> e.K, k |-> k]
                 /\ k' = k + 1
                 /\ pc' = "optimize"

\* lines 268-291, one pass of the for loop
OptimizeIterate ==
    /\ pc = "optimize"
    /\ k <= kmax
    /\ OptimizeStep(evaluate_k(G, partial_paths, k))
    /\ UNCHANGED <<G, partial_paths, kmin, kmax, sensitivity_threshold,
                   buildvars, expandvars>>

\* line 292
OptimizeReturn ==
    /\ \/ pc = "optimize" /\ k > kmax
       \/ pc = "break"
    /\ pc' = "returned"
    /\ UNCHANGED <<G, partial_paths, k, buildvars, optvars, expandvars>>

\* the calls assemble_transcript_graph makes (lines 342-351): kmin is 1
\* when ksensitivity > 0 and kmax otherwise
CalledByAssemble ==
    \/ sensitivity_threshold # Zero /\ kmin = 1
    \/ sensitivity_threshold = Zero /\ kmin = kmax

\* line 351, K, k = optimize_k(...): unpacking None raises TypeError
AssembleUnpack ==
    /\ pc = "returned"
    /\ CalledByAssemble
    /\ pc' = IF last = None THEN "TypeError" ELSE "smooth"
    /\ UNCHANGED <<G, partial_paths, k, buildvars, optvars, expandvars>>

NextK ==
    \/ OptimizeIterate
    \/ OptimizeReturn
    \/ AssembleUnpack

SpecK == InitK /\ [][NextK]_vars

-----------------------------------------------------------------------------
(***************************************************************************)
(* expand_path_chains(G, strand, path), one action per stage.  The paths   *)
(* are lists of up to MaxExons nodes in any order, over exons with         *)
(* boundaries in Coords; a node is a plain exon or stands for a chain of   *)
(* two exons.                                                              *)
(***************************************************************************)
MaxExons == 3

Coords == {100, 120, 140, 160}

Exons == {Exon(a, b) : <<a, b>> \in {c \in Coords \X Coords : c[1] < c[2]}}

PlainNodes ==
    {[start |-> e.start, end |-> e.end, has_chain |-> FALSE, chain |-> <<>>] :
        e \in Exons}

ChainNodes ==
    {[start |-> c[1].start, end |-> c[2].end, has_chain |-> TRUE, chain |-> c] :
        c \in {d \in Exons \X Exons : d[1].end <= d[2].start}}

ExonPaths == UNION {[1 .. n -> PlainNodes \cup ChainNodes] : n \in 1 .. MaxExons}

NoSpliceGraph == [node |-> <<>>, edge |-> {}]

InitE ==
    /\ strand \in {POS_STRAND, NEG_STRAND}
    /\ path_arg \in ExonPaths
    /\ path = path_arg
    /\ newpath = <<>>
    /\ pc = "reverse"
    /\ G = NoSpliceGraph
    /\ partial_paths = <<>>
    /\ k = 0
    /\ BuildIdle
    /\ OptIdle

\* lines 298-299
ExpandReverse ==
    /\ pc = "reverse"
    /\ path' = oriented(strand, path)
    /\ pc' = "chains"
    /\ UNCHANGED <<G, partial_paths, k, strand, path_arg, newpath, buildvars, optvars>>

\* lines 301-308
ExpandChains ==
    /\ pc = "chains"
    /\ path' = expand_chains(path, 1)
    /\ pc' = "collapse"
    /\ UNCHANGED <<G, partial_paths, k, strand, path_arg, newpath, buildvars, optvars>>

\* lines 310-322
ExpandCollapse ==
    /\ pc = "collapse"
    /\ newpath' = collapse(path)
    /\ pc' = "expanded"
    /\ UNCHANGED <<G, partial_paths, k, strand, path_arg, path, buildvars, optvars>>

NextE ==
    \/ ExpandReverse
    \/ ExpandChains
    \/ ExpandCollapse

SpecE == InitE /\ [][NextE]_vars

-----------------------------------------------------------------------------
(***************************************************************************)
(* Properties of create_kmer_graph, checked under Spec.                    *)
(***************************************************************************)
RECURSIVE SumTo(_, _)
SumTo(f, n) == IF n = 0 THEN 0 ELSE f[n] + SumTo(f, n - 1)

NonSentinel(graph) == nodes(graph) \ {SOURCE, SINK}

IsFullLength(p) == p[1] \in start_nodes(G) /\ p[Len(p)] \in end_nodes(G)

\* the windows a path deposits at k: none when it is deferred
WindowsOf(p) ==
    IF Len(p) >= k THEN [i \in 1 .. Len(p) - k + 1 |-> SubSeq(p, i, i + k - 1)]
    ELSE IF IsFullLength(p) THEN <<p>>
    ELSE <<>>

Clipped == pc = "done"

\* C1: once clip_dangling_ends has returned, every vertex left in the graph
\* other than SOURCE and SINK has in-degree >= 1 and out-degree >= 1.
C1_NoDanglingAfterClip ==
    Clipped => \A n \in NonSentinel(K) : in_degree(K, n) >= 1 /\ out_degree(K, n) >= 1

\* a run that clipped a vertex exposed only by an earlier removal and left
\* another vertex in the graph
C1_Witness ==
    /\ Clipped
    /\ NonSentinel(K) # {}
    /\ \E n \in clip_nodes : ~IsDangling(K_resolved, n)

TotalInputScore == weighted_score(partial_paths, 1)
LostScore == weighted_score(lost_paths, 1)
RetainedScore == SumScores(K, NonSentinel(K))

\* C2 as claimed: after create_kmer_graph the total input score
\* (sum of len(path)*score) equals the scores of the non-sentinel vertices
\* left, plus the lost score (sum of len(path)*score), plus the clipped score.
C2_ScoreConservation ==
    Clipped =>
        Rat(TotalInputScore) = RatAdd(RatAdd(RetainedScore, Rat(LostScore)), clip_score)

IsLost(p) == \E j \in DOMAIN lost_paths : lost_paths[j].path = p

\* what one partial path deposits on kmer vertices: its score once per
\* window when it is placed directly, its score once when it is a deferred
\* short path that matched, nothing when it is lost
DepositOf(pp) ==
    IF Len(WindowsOf(pp.path)) > 0 THEN Len(WindowsOf(pp.path)) * pp.score
    ELSE IF IsLost(pp.path) THEN 0
    ELSE pp.score

DepositedScore ==
    SumTo([i \in DOMAIN partial_paths |-> DepositOf(partial_paths[i])],
          Len(partial_paths))

\* C2 amended: the scores of the non-sentinel vertices left plus the clipped
\* score equal what the partial paths deposited: score times the number of
\* windows for a path placed directly, score for a matched short path, and
\* nothing for a lost one.
C2_DepositedScoreConserved ==
    Clipped => RatAdd(RetainedScore, clip_score) = Rat(DepositedScore)

\* a run at k >= 2 that placed a path of several windows, matched a short
\* path of positive score and clipped nothing of it
C2_Witness ==
    /\ Clipped
    /\ k >= 2
    /\ RetainedScore # Zero
    /\ \E i \in DOMAIN partial_paths : Len(WindowsOf(partial_paths[i].path)) > 1
    /\ \E i \in DOMAIN partial_paths :
          /\ WindowsOf(partial_paths[i].path) = <<>>
          /\ ~IsLost(partial_paths[i].path)
          /\ partial_paths[i].score > 0

\* the sum of the scores of the paths that deposit the window t
WindowScore(t) ==
    SumTo([i \in DOMAIN partial_paths |->
              partial_paths[i].score *
                  Cardinality({j \in DOMAIN WindowsOf(partial_paths[i].path) :
                                  WindowsOf(partial_paths[i].path)[j] = t})],
          Len(partial_paths))

\* C7: at a fixed k, equal windows are one vertex (the id-to-tuple table never
\* holds two ids for one tuple), and before short-path resolution and
\* clipping the vertex's score is the sum, over every deposited window equal
\* to its tuple, of the owning path's score.
C7_OneVertexPerTuple ==
    /\ \A i, j \in DOMAIN id_kmer_map : id_kmer_map[i] = id_kmer_map[j] => i = j
    /\ pc = "short_paths" =>
          /\ \A i \in DOMAIN partial_paths :
                \A j \in DOMAIN WindowsOf(partial_paths[i].path) :
                    LET t == WindowsOf(partial_paths[i].path)[j]
                    IN  /\ t \in DOMAIN kmer_id_map
                        /\ id_kmer_map[kmer_id_map[t]] = t
                        /\ kmer_id_map[t] \in nodes(K)
          /\ \A id \in DOMAIN id_kmer_map :
                K.node[id].score = Rat(WindowScore(id_kmer_map[id]))

\* two different paths of positive score deposit the same window
C7_Witness ==
    /\ pc = "short_paths"
    /\ \E i, j \in DOMAIN partial_paths :
          /\ i # j
          /\ partial_paths[i].path # partial_paths[j].path
          /\ partial_paths[i].score > 0
          /\ partial_paths[j].score > 0
          /\ \E a \in DOMAIN WindowsOf(partial_paths[i].path) :
                \E b \in DOMAIN WindowsOf(partial_paths[j].path) :
                    WindowsOf(partial_paths[i].path)[a] = WindowsOf(partial_paths[j].path)[b]

InBucket(p) ==
    \E len \in DOMAIN short_partial_path_dict :
        \E j \in DOMAIN short_partial_path_dict[len] :
            short_partial_path_dict[len][j][1] = p

IsShortFullLength(p) == Len(p) < k /\ IsFullLength(p)

\* C8: a partial path shorter than k whose first node is a source leaf and
\* whose last node is a sink leaf of the splice graph is never put in a
\* short-path bucket: it is one kmer vertex equal to the whole path, linked
\* SOURCE -> vertex -> SINK, and still in the graph after clipping.
C8_ShortFullLengthPathIsOneVertex ==
    \A i \in DOMAIN partial_paths :
        LET p == partial_paths[i].path
        IN  IsShortFullLength(p) =>
              /\ ~InBucket(p)
              /\ pc # "convert" =>
                    /\ p \in DOMAIN kmer_id_map
                    /\ id_kmer_map[kmer_id_map[p]] = p
              /\ pc = "add_paths" =>
                    \E j \in DOMAIN kmer_paths :
                        kmer_paths[j][1] = <<SOURCE, kmer_id_map[p], SINK>>
              /\ pc \in {"short_paths", "clip", "clip_loop", "done"} =>
                    /\ kmer_id_map[p] \in nodes(K)
                    /\ <<SOURCE, kmer_id_map[p]>> \in K.edge
                    /\ <<kmer_id_map[p], SINK>> \in K.edge

\* a short full-length path is in the graph after a clipping that removed
\* other vertices
C8_Witness ==
    /\ Clipped
    /\ clip_nodes # {}
    /\ \E i \in DOMAIN partial_paths : IsShortFullLength(partial_paths[i].path)

\* C9: clip_dangling_ends returns exactly the set of vertices it removed,
\* those exposed by earlier removals of the same run included, and the
\* clipped score is the sum of the scores these vertices carried.
C9_ClipReturnsWhatItRemoved ==
    pc \in {"clip_loop", "done"} =>
        /\ clip_nodes = nodes(K_resolved) \ nodes(K)
        /\ clip_score = SumScores(K_resolved, clip_nodes)
        /\ \A n \in nodes(K) : K.node[n] = K_resolved.node[n]

\* the run removed a vertex with positive score that was not dangling at first
C9_Witness ==
    /\ Clipped
    /\ \E n \in clip_nodes :
          /\ ~IsDangling(K_resolved, n)
          /\ K_resolved.node[n].score # Zero
    /\ \E n \in clip_nodes : IsDangling(K_resolved, n)

-----------------------------------------------------------------------------
(***************************************************************************)
(* Properties of optimize_k, checked under SpecK.                          *)
(***************************************************************************)
Returned == pc \in {"returned", "TypeError", "smooth"}

\* k has a graph whose sensitivity is at least the threshold
Admissible(kk) ==
    /\ ~evaluate_k(G, partial_paths, kk).raised
    /\ RatLe(sensitivity_threshold, evaluate_k(G, partial_paths, kk).score_sensitivity)

\* C3: whenever at least one k in kmin..kmax has sensitivity >= threshold,
\* optimize_k returns the largest k in kmin..kmax with sensitivity >= threshold.
C3_ReturnsLargestAdmissibleK ==
    (Returned /\ \E kk \in kmin .. kmax : Admissible(kk)) =>
        /\ last.tag = "pair"
        /\ Admissible(last.k)
        /\ \A kk \in kmin .. kmax : Admissible(kk) => kk <= last.k

\* the first pass evaluated kmin and found it below the threshold
KminBelowThreshold ==
    /\ Len(tried) >= 1
    /\ ~tried[1].raised
    /\ RatLt(tried[1].score_sensitivity, sensitivity_threshold)

\* C4: when the sensitivity at kmin is below the threshold, the search ends
\* in an explicit failure or an explicit fallback (graph, k) pair, and an
\* absent result never reaches the smoothing stage.
C4_NoAbsentResult ==
    /\ (Returned /\ KminBelowThreshold) => last.tag = "pair"
    /\ pc = "smooth" => last.tag = "pair"

\* C5: with kmin = kmax, optimize_k returns exactly that k after a single
\* pass, whatever the threshold.
C5_SingleCandidateIsReturned ==
    (Returned /\ kmin = kmax) =>
        /\ Len(tried) = 1
        /\ last.tag = "pair"
        /\ last.k = kmin

\* C6: the candidates are tried in ascending order from kmin, each at most
\* once; after a k below the threshold no larger k is built or evaluated;
\* there are at most kmax - kmin + 1 passes.
C6_AscendingSearchStopsEarly ==
    /\ Len(tried) <= kmax - kmin + 1
    /\ \A i \in DOMAIN tried : tried[i].k = kmin + i - 1
    /\ \A i \in DOMAIN tried :
          (tried[i].raised \/ RatLt(tried[i].score_sensitivity, sensitivity_threshold))
              => i = Len(tried)
    /\ \A i \in DOMAIN tried :
          i < Len(tried) => last.tag = "pair" /\ last.k >= tried[i].k

\* the search stopped at a k below the threshold, after an accepted k and
\* with larger candidates left untried
C6_Witness ==
    /\ pc = "returned"
    /\ Len(tried) >= 2
    /\ RatLt(tried[Len(tried)].score_sensitivity, sensitivity_threshold)
    /\ tried[Len(tried)].k < kmax

-----------------------------------------------------------------------------
(***************************************************************************)
(* Properties of expand_path_chains, checked under SpecE.                  *)
(***************************************************************************)
Plain(a, b) == [start |-> a, end |-> b, has_chain |-> FALSE, chain |-> <<>>]

ScenarioD == <<Plain(100, 120), Plain(120, 140), Plain(140, 160)>>

ChainFree(p) == \A i \in DOMAIN p : ~p[i].has_chain

\* each exon ends where the next one starts
TouchingAscending(p) == \A i \in 1 .. Len(p) - 1 : p[i].end = p[i + 1].start

\* each exon starts where the next one ends
TouchingDescending(p) == \A i \in 1 .. Len(p) - 1 : p[i].start = p[i + 1].end

AsExons(p) == [i \in DOMAIN p |-> Exon(p[i].start, p[i].end)]

StrictlyIncreasing(p) == \A i \in 1 .. Len(p) - 1 : p[i].start < p[i + 1].start

NoTouching(p) == \A i \in 1 .. Len(p) - 1 : p[i].end # p[i + 1].start

Maximal(p) == ChainFree(p) /\ StrictlyIncreasing(p) /\ NoTouching(p)

-----------------------------------------------------------------------------
(***************************************************************************)
(* Further properties of create_kmer_graph, checked under Spec.            *)
(***************************************************************************)
\* the vertices of graph reached from the set S along its edges
RECURSIVE ReachFrom(_, _)
ReachFrom(graph, S) ==
    LET further == S \cup UNION {successors(graph, n) : n \in S}
    IN  IF further = S THEN S ELSE ReachFrom(graph, further)

OnSourceSinkPath(graph, n) ==
    /\ n \in ReachFrom(graph, {SOURCE})
    /\ SINK \in ReachFrom(graph, {n})

\* C12: after create_kmer_graph has clipped the graph, every vertex left
\* other than SOURCE and SINK lies on a directed path from SOURCE to SINK.
C12_EveryVertexOnSourceSinkPath ==
    Clipped => \A n \in NonSentinel(K) : OnSourceSinkPath(K, n)

\* a clipping that removed vertices left a chain of at least two kmers
\* between SOURCE and SINK
C12_Witness ==
    /\ Clipped
    /\ clip_nodes # {}
    /\ \E e \in K.edge : e[1] \in NonSentinel(K) /\ e[2] \in NonSentinel(K)

\* C13: short-path redistribution never fails: when a deferred short path
\* matches kmers whose scores are all zero, the resolution applies a defined
\* policy and completes instead of dividing by zero.
C13_RedistributionNeverDividesByZero == pc # "ZeroDivisionError"

SumOfPathScores ==
    SumTo([i \in DOMAIN partial_paths |-> partial_paths[i].score], Len(partial_paths))

\* no full-length partial path is shorter than k
KWithinFullLengthPaths ==
    \A i \in DOMAIN partial_paths :
        IsFullLength(partial_paths[i].path) => k <= Len(partial_paths[i].path)

\* C15: for a non-empty list of partial paths and a k not larger than the
\* shortest full-length path, in the graph as built before the clipping every
\* vertex score is >= 0 and no vertex score exceeds the sum of the scores of
\* all partial paths.
C15_VertexScoreBounded ==
    (pc \in {"short_paths", "clip"} /\ Len(partial_paths) > 0
        /\ KWithinFullLengthPaths) =>
        \A n \in nodes(K) :
            /\ RatLe(Zero, K.node[n].score)
            /\ RatLe(K.node[n].score, Rat(SumOfPathScores))

\* two paths of positive score, one of them full length, meet in a kmer
\* vertex that carries the sum of their scores
C15_Witness ==
    /\ pc = "clip"
    /\ Len(partial_paths) = 2
    /\ KWithinFullLengthPaths
    /\ \A i \in DOMAIN partial_paths : partial_paths[i].score > 0
    /\ \E i \in DOMAIN partial_paths : IsFullLength(partial_paths[i].path)
    /\ \E n \in NonSentinel(K) : K.node[n].score = Rat(SumOfPathScores)

\* a pass of the loop of clip_dangling_ends
ClipPass == pc = "clip_loop" /\ clip_iterations' = clip_iterations + 1

\* C16 as claimed: clip_dangling_ends terminates (its loop has at most as
\* many passes as the graph has vertices), and every pass of the loop removes
\* at least one vertex.
C16_EveryPassRemovesAVertex ==
    [][/\ ClipPass => Cardinality(nodes(K')) < Cardinality(nodes(K))
       /\ clip_iterations' <= Cardinality(nodes(K_resolved'))]_vars

\* C16 amended: clip_dangling_ends terminates, and every pass of its loop
\* removes at least one vertex or is the last one (it leaves no vertex to
\* test): the loop has at most as many passes as the graph has vertices,
\* plus one.
C16_ClipTerminates ==
    [][/\ ClipPass => \/ Cardinality(nodes(K')) < Cardinality(nodes(K))
                      \/ test_nodes' = {}
       /\ clip_iterations' <= Cardinality(nodes(K_resolved')) + 1]_vars

\* a run of several passes that removed vertices and left others
C16_Witness ==
    /\ Clipped
    /\ clip_iterations >= 3
    /\ clip_nodes # {}
    /\ NonSentinel(K) # {}

\* the tuple t holds p as a contiguous subsequence
Contains(t, p) ==
    \E i \in 0 .. Len(t) - Len(p) : SubSeq(t, i + 1, i + Len(p)) = p

\* the deferred short paths, as places <<length, index>> in their buckets
Deferred ==
    UNION {{<<len, j>> : j \in DOMAIN short_partial_path_dict[len]} :
              len \in DOMAIN short_partial_path_dict}

DeferredPath(d) == short_partial_path_dict[d[1]][d[2]][1]
DeferredScore(d) == short_partial_path_dict[d[1]][d[2]][2]

\* the kmers that hold the deferred path as a contiguous subsequence
Matching(d) ==
    {id \in DOMAIN id_kmer_map : Contains(id_kmer_map[id], DeferredPath(d))}

\* what the kmer id is due from the deferred path d
Increment(d, id) ==
    IF id \in Matching(d)
    THEN RatMul(Rat(DeferredScore(d)),
                RatDiv(K.node[id].score, SumScores(K, Matching(d))))
    ELSE Zero

RECURSIVE IncrementsTo(_, _)
IncrementsTo(id, D) ==
    IF D = {} THEN Zero
    ELSE LET d == CHOOSE x \in D : TRUE
         IN  RatAdd(Increment(d, id), IncrementsTo(id, D \ {d}))

RECURSIVE IncrementsOf(_, _)
IncrementsOf(d, S) ==
    IF S = {} THEN Zero
    ELSE LET id == CHOOSE x \in S : TRUE
         IN  RatAdd(Increment(d, id), IncrementsOf(d, S \ {id}))

Overlap(a, b) ==
    /\ Len(a) = Len(b)
    /\ SubSeq(a, 2, Len(a)) = SubSeq(b, 1, Len(b) - 1)

\* the paths of graph that extend a path of the set P, those of P included
RECURSIVE Extensions(_, _, _)
Extensions(graph, P, n) ==
    IF n = 0 \/ P = {} THEN P
    ELSE P \cup Extensions(graph,
                           UNION {{Append(q, v) : v \in successors(graph, q[Len(q)])} :
                                     q \in P},
                           n - 1)

\* the paths of the kmer graph from SOURCE to SINK
SourceSinkPaths ==
    IF SOURCE \notin nodes(K) THEN {}
    ELSE {q \in Extensions(K, {<<SOURCE>>}, NumNodes + 1) : q[Len(q)] = SINK}

\* C18: every edge between two vertices other than SOURCE and SINK joins
\* tuples that overlap in all but one position, so the path rebuilt from a
\* SOURCE-to-SINK kmer path (the first kmer's tuple, then the last element of
\* each later kmer) has the kmers of the path as its windows of length k.
C18_ConsecutiveKmersOverlap ==
    /\ \A e \in K.edge :
          (e[1] \in NonSentinel(K) /\ e[2] \in NonSentinel(K)) =>
              /\ Len(id_kmer_map[e[1]]) = k
              /\ Overlap(id_kmer_map[e[1]], id_kmer_map[e[2]])
    /\ pc \in {"clip", "done"} =>
          \A q \in SourceSinkPaths :
              Len(q) >= 3 =>
                  LET rebuilt == reconstruct_path(id_kmer_map, q)
                      first == id_kmer_map[q[2]]
                  IN  /\ Len(rebuilt) = Len(first) + Len(q) - 3
                      /\ Len(first) < k => Len(q) = 3
                      /\ Len(first) >= k =>
                            \A i \in 1 .. Len(q) - 2 :
                                SubSeq(rebuilt, i, i + k - 1) = id_kmer_map[q[i + 1]]

\* a clipped graph at k >= 2 with a SOURCE-to-SINK path of three kmers
C18_Witness ==
    /\ Clipped
    /\ k >= 2
    /\ \E q \in SourceSinkPaths : Len(q) >= 5

\* the vertices of S other than SOURCE and SINK that lack a predecessor or a
\* successor inside S
Violators(graph, S) ==
    {n \in S \ {SOURCE, SINK} :
        \/ predecessors(graph, n) \cap S = {}
        \/ successors(graph, n) \cap S = {}}

\* the largest set of vertices that holds the sentinels of the graph and has
\* no violator (a union of such sets is such a set)
LargestClosed(graph) ==
    UNION {S \in SUBSET nodes(graph) :
              /\ nodes(graph) \cap {SOURCE, SINK} \subseteq S
              /\ Violators(graph, S) = {}}

\* the whole graph is scanned again until no violator is left
RECURSIVE Rescan(_, _)
Rescan(graph, S) ==
    IF Violators(graph, S) = {} THEN S
    ELSE Rescan(graph, S \ Violators(graph, S))

\* C19: clip_dangling_ends removes the minimum possible: the vertices it
\* leaves are the largest subset that holds SOURCE and SINK and in which every
\* other vertex has a predecessor and a successor inside the subset; this is
\* also what scanning the whole graph again and again would leave.
C19_ClipRemovesTheMinimum ==
    Clipped =>
        /\ nodes(K) = LargestClosed(K_resolved)
        /\ nodes(K) = Rescan(K_resolved, nodes(K_resolved))
        /\ K.edge = {e \in K_resolved.edge : e[1] \in nodes(K) /\ e[2] \in nodes(K)}

\* the clipping took several passes, removed a chain of vertices from both
\* its ends or along it, and left vertices between SOURCE and SINK
C19_Witness ==
    /\ Clipped
    /\ clip_iterations >= 3
    /\ Cardinality(clip_nodes) >= 2
    /\ NonSentinel(K) # {}
    /\ \E n \in clip_nodes : in_degree(K_resolved, n) > 0

-----------------------------------------------------------------------------
(***************************************************************************)
(* Further properties of optimize_k, checked under SpecK.                  *)
(***************************************************************************)
\* C14: when the total length-weighted input score is 0 (no partial path, or
\* every score 0) and the graph at k has been built, the sensitivity
\* computation yields a defined result and does not divide by zero.
C14_ZeroTotalScoreIsGuarded ==
    (weighted_score(partial_paths, 1) = 0
        /\ ~create_kmer_graph(G, partial_paths, k).raised) =>
        pc # "ZeroDivisionError"

\* C20: for partial paths with scores >= 0 and a positive total
\* length-weighted score, at every k the sensitivity computed in optimize_k
\* (kept score / total score) lies in [0, 1]: the lost score plus the clipped
\* score is never negative and never exceeds the total score.
C20_SensitivityInUnitInterval ==
    \A i \in DOMAIN tried :
        ~tried[i].raised =>
            /\ weighted_score(partial_paths, 1) > 0
            /\ RatLe(Zero, tried[i].score_sensitivity)
            /\ RatLe(tried[i].score_sensitivity, Rat(1))

\* the search met a sensitivity strictly between 0 and 1 after one of 1
C20_Witness ==
    /\ pc = "returned"
    /\ \E i \in DOMAIN tried : ~tried[i].raised /\ tried[i].score_sensitivity = Rat(1)
    /\ \E i \in DOMAIN tried :
          /\ ~tried[i].raised
          /\ RatLt(Zero, tried[i].score_sensitivity)
          /\ RatLt(tried[i].score_sensitivity, Rat(1))

=============================================================================
